---------------------------- MODULE Spec2Model ----------------------------
(***************************************************************************)
(* Model of the therapist-directory backend (src/main.py, src/schemas.py): *)
(* the document store's collections, the HTTP handlers that read and write *)
(* them, the schema validation of inbound records, the identifier          *)
(* normaliser to_str_id, and the seeding handler run by concurrent         *)
(* requests.                                                               *)
(*                                                                         *)
(* Python values are tagged records [t |-> tag, v |-> payload]; a string   *)
(* is the tuple of its characters, so that substring and regular           *)
(* expression matching are computed rather than assumed.                   *)
(***************************************************************************)
EXTENDS Integers, Sequences, FiniteSets, TLC

VARIABLES
    db,       \* the store: collection name -> sequence of documents, in insertion order
    nextId,   \* the store's generator of native identifiers
    last,     \* the request being answered and its response ("idle" between requests)
    norm,     \* to_str_id under test: the input document and its images
    val,      \* schema validation under test: kind, raw input, outcome
    procs,    \* the seed requests in flight: position in the loop and locals
    seeded    \* native identifiers of the documents seed calls inserted

vars == <<db, nextId, last, norm, val, procs, seeded>>

----------------------------------------------------------------------------
(* Bounds of the model. *)

MaxListLen == 2      \* longest sequence value of a document under to_str_id
MaxDocs == 1         \* documents the create handlers insert, over all collections
MaxOmit == 2         \* fields left out of an otherwise valid raw input
MaxSeedRuns == 2     \* seed requests started in the seeding specification

----------------------------------------------------------------------------
(* Python values. *)

S(s) == [t |-> "str", v |-> s]
B(b) == [t |-> "bool", v |-> b]
I(n) == [t |-> "int", v |-> n]
O(n) == [t |-> "oid", v |-> n]
L(q) == [t |-> "list", v |-> q]
Dict(f) == [t |-> "dict", v |-> f]
PyNone == [t |-> "none", v |-> 0]

\* Python truthiness, as used by `if not doc`, `if d.get("_id")`, `if search`.
Truthy(x) ==
    CASE x.t = "none" -> FALSE
      [] x.t = "bool" -> x.v
      [] x.t = "int" -> x.v # 0
      [] x.t = "str" -> Len(x.v) > 0
      [] x.t = "list" -> Len(x.v) > 0
      [] x.t = "dict" -> DOMAIN x.v # {}
      [] OTHER -> TRUE

\* dict.get(key): the value, or None when the key is missing.
Get(d, k) == IF k \in DOMAIN d THEN d[k] ELSE PyNone

HexDigits == <<"0", "1", "2", "3", "4", "5", "6", "7", "8", "9", "a", "b", "c", "d", "e", "f">>
UpperHex == <<"0", "1", "2", "3", "4", "5", "6", "7", "8", "9", "A", "B", "C", "D", "E", "F">>

OidLen == 24

\* str(ObjectId): 24 lower-case hexadecimal digits.  The generator's
\* identifiers fit in the low seven digits.
ObjectIdStr(n) ==
    [i \in 1..OidLen |->
        IF OidLen - i >= 7 THEN "0"
        ELSE HexDigits[((n \div (16 ^ (OidLen - i))) % 16) + 1]]

IsHexChar(c) == \E i \in 1..16 : HexDigits[i] = c \/ UpperHex[i] = c
HexVal(c) == (CHOOSE i \in 1..16 : HexDigits[i] = c \/ UpperHex[i] = c) - 1

\* ObjectId.is_valid for a str: exactly 24 hexadecimal digits.
ObjectIdValid(s) == Len(s) = OidLen /\ \A i \in 1..OidLen : IsHexChar(s[i])

RECURSIVE HexNumber(_, _)
HexNumber(s, acc) ==
    IF s = <<>> THEN acc ELSE HexNumber(Tail(s), 16 * acc + HexVal(Head(s)))

\* ObjectId(s) for a valid s.
ObjectIdOf(s) == O(HexNumber(s, 0))

\* str(x) for the values a document's "_id" takes in this model.
PyStr(x) ==
    CASE x.t = "oid" -> S(ObjectIdStr(x.v))
      [] x.t = "str" -> x
      [] x.t = "bool" -> IF x.v THEN S(<<"T", "r", "u", "e">>) ELSE S(<<"F", "a", "l", "s", "e">>)
      [] x.t = "none" -> S(<<"N", "o", "n", "e">>)

----------------------------------------------------------------------------
(* to_str_id. *)

\* The loop body of to_str_id on one value: an ObjectId becomes its string,
\* a list has its ObjectId elements replaced, anything else is kept.
ConvertValue(x) ==
    CASE x.t = "oid" -> PyStr(x)
      [] x.t = "list" -> L([i \in 1..Len(x.v) |-> IF x.v[i].t = "oid" THEN PyStr(x.v[i]) ELSE x.v[i]])
      [] OTHER -> x

\* The same loop without the list branch.
ConvertValueScalarOnly(x) ==
    CASE x.t = "oid" -> PyStr(x)
      [] OTHER -> x

\* d["id"] = str(d.pop("_id")) when d.get("_id") is truthy.
MoveId(d) ==
    IF Truthy(Get(d, "_id"))
    THEN [k \in (DOMAIN d \ {"_id"}) \cup {"id"} |-> IF k = "id" THEN PyStr(d["_id"]) ELSE d[k]]
    ELSE d

\* to_str_id without its `if not doc: return doc` guard: dict(None) raises.
to_str_id_unguarded(doc) ==
    IF doc.t # "dict" THEN S(<<"T", "y", "p", "e", "E", "r", "r", "o", "r">>)
    ELSE LET d == MoveId(doc.v) IN Dict([k \in DOMAIN d |-> ConvertValue(d[k])])

\* to_str_id converting scalar fields only.
to_str_id_shallow(doc) ==
    IF ~Truthy(doc) THEN doc
    ELSE LET d == MoveId(doc.v) IN Dict([k \in DOMAIN d |-> ConvertValueScalarOnly(d[k])])

to_str_id(doc) ==
    IF ~Truthy(doc) THEN doc
    ELSE LET d == MoveId(doc.v) IN Dict([k \in DOMAIN d |-> ConvertValue(d[k])])

----------------------------------------------------------------------------
(* Documents handed to to_str_id. *)

RECURSIVE SeqsUpTo(_, _)
SeqsUpTo(X, n) ==
    IF n = 0 THEN {<<>>}
    ELSE LET shorter == SeqsUpTo(X, n - 1)
         IN shorter \cup {Append(q, x) : q \in {r \in shorter : Len(r) = n - 1}, x \in X}

Absent == [t |-> "absent", v |-> 0]

NormElems == {O(1), S(<<"a">>), L(<<O(2)>>)}
NormIdValues == {Absent, O(1), O(2), S(<<"x">>), S(<<>>), PyNone}
NormExtIdValues == {Absent, S(<<"x">>), O(3)}
NormRefValues == {Absent, O(2), S(<<"r">>), PyNone}
NormTagValues == {Absent} \cup {L(q) : q \in SeqsUpTo(NormElems, MaxListLen)}

MakeDoc(a, b, c, e) ==
    LET f == [k \in {"_id", "id", "ref", "tags"} |->
                 CASE k = "_id" -> a [] k = "id" -> b [] k = "ref" -> c [] k = "tags" -> e]
    IN Dict([k \in {j \in DOMAIN f : f[j] # Absent} |-> f[k]])

NormDocs ==
    {PyNone} \cup
    {MakeDoc(a, b, c, e) : a \in NormIdValues, b \in NormExtIdValues,
                           c \in NormRefValues, e \in NormTagValues}

NormIdle == [phase |-> 0, doc |-> PyNone, out |-> PyNone, out2 |-> PyNone]

Normalize ==
    /\ norm.phase = 0
    /\ norm' = [norm EXCEPT !.phase = 1, !.out = to_str_id(norm.doc)]
    /\ UNCHANGED <<db, nextId, last, val, procs, seeded>>

NormalizeAgain ==
    /\ norm.phase = 1
    /\ norm' = [norm EXCEPT !.phase = 2, !.out2 = to_str_id(norm.out)]
    /\ UNCHANGED <<db, nextId, last, val, procs, seeded>>

----------------------------------------------------------------------------
(* Text. *)

UpperLetters ==
    <<"A", "B", "C", "D", "E", "F", "G", "H", "I", "J", "K", "L", "M",
      "N", "O", "P", "Q", "R", "S", "T", "U", "V", "W", "X", "Y", "Z">>
LowerLetters ==
    <<"a", "b", "c", "d", "e", "f", "g", "h", "i", "j", "k", "l", "m",
      "n", "o", "p", "q", "r", "s", "t", "u", "v", "w", "x", "y", "z">>
Digits == <<"0", "1", "2", "3", "4", "5", "6", "7", "8", "9">>

InSeq(c, q) == \E i \in 1..Len(q) : q[i] = c

\* str.lower() on one character.
LowerOf ==
    [c \in {UpperLetters[i] : i \in 1..Len(UpperLetters)} |->
        LowerLetters[CHOOSE i \in 1..Len(UpperLetters) : UpperLetters[i] = c]]

ToLower(c) == IF c \in DOMAIN LowerOf THEN LowerOf[c] ELSE c

LowerStr(s) == [i \in 1..Len(s) |-> ToLower(s[i])]

\* Plain containment of needle in hay, ignoring case.
ContainsIgnoreCase(hay, needle) ==
    \E i \in 0..(Len(hay) - Len(needle)) :
        \A j \in 1..Len(needle) : ToLower(hay[i + j]) = ToLower(needle[j])

\* {"$regex": pattern, "$options": "i"} on a string: an unanchored search, for
\* patterns made of literal characters and ".".  "." matches any character,
\* any other character matches itself in either case.
RegexSearch(pattern, text) ==
    LET p == LowerStr(pattern)
        t == LowerStr(text)
    IN \E i \in 0..(Len(t) - Len(p)) :
           \A j \in 1..Len(p) : p[j] = "." \/ p[j] = t[i + j]

----------------------------------------------------------------------------
(* Schemas (src/schemas.py) and their validation. *)

WeekdayMin == 0
WeekdayMax == 6

NoRange == [on |-> FALSE, ge |-> 0, le |-> 0]

\* A required field: Field(...) or a bare annotation.
Req(n, ty) ==
    [name |-> n, type |-> ty, optional |-> FALSE, required |-> TRUE, default |-> PyNone, range |-> NoRange]
\* Optional[T] = None.
Opt(n, ty) ==
    [name |-> n, type |-> ty, optional |-> TRUE, required |-> FALSE, default |-> PyNone, range |-> NoRange]
\* A field with a default value or default_factory.
Dflt(n, ty, d) ==
    [name |-> n, type |-> ty, optional |-> FALSE, required |-> FALSE, default |-> d, range |-> NoRange]

User ==
    << Req("role", "str"), Req("name", "str"), Req("email", "email"),
       Opt("photo_url", "str"), Opt("bio", "str"),
       Dflt("specialties", "list_str", L(<<>>)), Dflt("modalities", "list_str", L(<<>>)),
       Dflt("languages", "list_str", L(<<>>)), Opt("location", "str"),
       Dflt("virtual", "bool", B(TRUE)), Dflt("in_person", "bool", B(FALSE)),
       Opt("fee_min", "int"), Opt("fee_max", "int"), Opt("years_experience", "int"),
       Dflt("certifications", "list_str", L(<<>>)) >>

TherapistAvailability ==
    << Req("therapist_id", "str"),
       [Req("weekday", "int") EXCEPT !.range = [on |-> TRUE, ge |-> WeekdayMin, le |-> WeekdayMax]],
       Req("time_ranges", "list_str"),
       Dflt("virtual", "bool", B(TRUE)), Dflt("in_person", "bool", B(FALSE)) >>

\* BookingRequest with preferred_times required.
BookingRequestRequired ==
    << Req("therapist_id", "str"), Req("client_name", "str"), Req("client_email", "email"),
       Opt("note", "str"), Req("preferred_times", "list_str"),
       Dflt("status", "str", S(<<"p", "e", "n", "d", "i", "n", "g">>)) >>

BookingRequest ==
    << Req("therapist_id", "str"), Req("client_name", "str"), Req("client_email", "email"),
       Opt("note", "str"), Dflt("preferred_times", "list_str", L(<<>>)),
       Dflt("status", "str", S(<<"p", "e", "n", "d", "i", "n", "g">>)) >>

Message ==
    << Req("therapist_id", "str"), Req("client_email", "email"), Req("from_email", "email"),
       Req("to_email", "email"), Req("content", "str"), Opt("thread_id", "str") >>

JournalEntry ==
    << Req("client_email", "email"), Req("title", "str"), Req("content", "str"),
       Opt("mood", "str") >>

Schema(kind) ==
    CASE kind = "User" -> User
      [] kind = "TherapistAvailability" -> TherapistAvailability
      [] kind = "BookingRequest" -> BookingRequest
      [] kind = "Message" -> Message
      [] kind = "JournalEntry" -> JournalEntry

FieldNames(sch) == {sch[i].name : i \in 1..Len(sch)}
FieldOf(sch, n) == sch[CHOOSE i \in 1..Len(sch) : sch[i].name = n]

\* Positions of "@" in s.
AtPositions(s) == {i \in 1..Len(s) : s[i] = "@"}

DomainCharOk(c) ==
    InSeq(c, UpperLetters) \/ InSeq(c, LowerLetters) \/ InSeq(c, Digits) \/ c = "-" \/ c = "."

\* EmailStr: one "@", a non-empty local part without spaces, and a domain of
\* non-empty labels with at least one ".".
EmailValid(s) ==
    /\ Cardinality(AtPositions(s)) = 1
    /\ LET at == CHOOSE i \in AtPositions(s) : TRUE
           dom == SubSeq(s, at + 1, Len(s))
       IN /\ at > 1
          /\ \A i \in 1..(at - 1) : s[i] # " "
          /\ Len(dom) > 0
          /\ \A i \in 1..Len(dom) : DomainCharOk(dom[i])
          /\ \E i \in 1..Len(dom) : dom[i] = "."
          /\ dom[1] # "." /\ dom[Len(dom)] # "."
          /\ \A i \in 1..(Len(dom) - 1) : ~(dom[i] = "." /\ dom[i + 1] = ".")

\* The value EmailStr validation yields: the domain in lower case.
EmailNormalize(s) ==
    LET at == CHOOSE i \in AtPositions(s) : TRUE
    IN [i \in 1..Len(s) |-> IF i > at THEN ToLower(s[i]) ELSE s[i]]

TypeOk(ty, x) ==
    CASE ty = "str" -> x.t = "str"
      [] ty = "email" -> x.t = "str" /\ EmailValid(x.v)
      [] ty = "int" -> x.t = "int"
      [] ty = "bool" -> x.t = "bool"
      [] ty = "list_str" -> x.t = "list" /\ \A i \in 1..Len(x.v) : x.v[i].t = "str"

\* The errors validation reports for one field of the raw input.
FieldErrors(f, raw) ==
    IF f.name \notin DOMAIN raw
    THEN IF f.required THEN {[field |-> f.name, error |-> "missing"]} ELSE {}
    ELSE LET x == raw[f.name]
         IN IF x.t = "none"
            THEN IF f.optional THEN {} ELSE {[field |-> f.name, error |-> "type"]}
            ELSE IF ~TypeOk(f.type, x)
                 THEN {[field |-> f.name, error |-> IF f.type = "email" /\ x.t = "str" THEN "format" ELSE "type"]}
                 ELSE IF f.range.on /\ (x.v < f.range.ge \/ x.v > f.range.le)
                      THEN {[field |-> f.name, error |-> "range"]}
                      ELSE {}

\* The validated value of one field: the declared default when the field is
\* absent, the input otherwise (an email in its normal form).
FieldValue(f, raw) ==
    IF f.name \notin DOMAIN raw THEN f.default
    ELSE IF f.type = "email" /\ raw[f.name].t = "str" THEN S(EmailNormalize(raw[f.name].v))
         ELSE raw[f.name]

\* Model construction from a raw mapping; unknown keys are ignored.
ValidateWith(sch, raw) ==
    LET errs == UNION {FieldErrors(sch[i], raw) : i \in 1..Len(sch)}
    IN IF errs = {}
       THEN [ok |-> TRUE, errors |-> {}, rec |-> [n \in FieldNames(sch) |-> FieldValue(FieldOf(sch, n), raw)]]
       ELSE [ok |-> FALSE, errors |-> errs, rec |-> <<>>]

Validate(kind, raw) == ValidateWith(Schema(kind), raw)

----------------------------------------------------------------------------
(* The document store: insert, find_one, find_many. *)

Collections == {"user", "bookingrequest", "message", "journalentry"}

IsNone(x) == x.t = "none"

\* Query conditions; a query is a sequence of them, all of which must hold.
Eq(f, x) == [op |-> "eq", field |-> f, arg |-> x, subs |-> <<>>]
Regex(f, pat) == [op |-> "regex", field |-> f, arg |-> pat, subs |-> <<>>]
ElemMatchRegex(f, pat) == [op |-> "elemMatch", field |-> f, arg |-> pat, subs |-> <<>>]
Or(conds) == [op |-> "or", field |-> "", arg |-> PyNone, subs |-> conds]

\* {field: value}: the field equals the value, or is an array holding it.
EqMatches(doc, f, x) ==
    /\ f \in DOMAIN doc
    /\ \/ doc[f].t = x.t /\ doc[f] = x
       \/ doc[f].t = "list" /\ \E i \in 1..Len(doc[f].v) : doc[f].v[i].t = x.t /\ doc[f].v[i] = x

\* {field: {"$regex": p, "$options": "i"}}: a string field matching, or an
\* array field with a matching string element.
RegexMatches(doc, f, pat) ==
    /\ f \in DOMAIN doc
    /\ \/ doc[f].t = "str" /\ RegexSearch(pat.v, doc[f].v)
       \/ doc[f].t = "list" /\ \E i \in 1..Len(doc[f].v) :
              doc[f].v[i].t = "str" /\ RegexSearch(pat.v, doc[f].v[i].v)

\* {field: {"$elemMatch": {"$regex": p, "$options": "i"}}}.
ElemMatches(doc, f, pat) ==
    /\ f \in DOMAIN doc
    /\ doc[f].t = "list"
    /\ \E i \in 1..Len(doc[f].v) : doc[f].v[i].t = "str" /\ RegexSearch(pat.v, doc[f].v[i].v)

LeafMatches(doc, c) ==
    CASE c.op = "eq" -> EqMatches(doc, c.field, c.arg)
      [] c.op = "regex" -> RegexMatches(doc, c.field, c.arg)
      [] c.op = "elemMatch" -> ElemMatches(doc, c.field, c.arg)

CondMatches(doc, c) ==
    IF c.op = "or" THEN \E i \in 1..Len(c.subs) : LeafMatches(doc, c.subs[i])
    ELSE LeafMatches(doc, c)

QueryMatches(doc, query) == \A i \in 1..Len(query) : CondMatches(doc, query[i])

RECURSIVE FilterSeq(_, _)
FilterSeq(docs, query) ==
    IF docs = <<>> THEN <<>>
    ELSE (IF QueryMatches(Head(docs), query) THEN <<Head(docs)>> ELSE <<>>)
         \o FilterSeq(Tail(docs), query)

Reverse(q) == [i \in 1..Len(q) |-> q[Len(q) + 1 - i]]

\* find_many(kind, predicate): the matching documents, oldest first.
find_many(store, coll, query) == FilterSeq(store[coll], query)

\* find_one(kind, predicate): the first matching document, or None.
find_one(store, coll, query) ==
    LET found == FilterSeq(store[coll], query)
    IN IF found = <<>> THEN PyNone ELSE Dict(Head(found))

\* get_documents(collection_name, filter_dict, limit): no limit when limit is None.
get_documents(store, coll, query, limit) ==
    LET found == find_many(store, coll, query)
    IN IF IsNone(limit) \/ limit.v >= Len(found) THEN found ELSE SubSeq(found, 1, limit.v)

\* The document insert stores for a record: its fields that hold a value, and
\* the native identifier the store generates.
StoredDoc(rec, id) ==
    [k \in {j \in DOMAIN rec : ~IsNone(rec[j])} \cup {"_id"} |->
        IF k = "_id" THEN O(id) ELSE rec[k]]

\* create_document(collection_name, data): the store after the insert.
create_document(store, coll, rec, id) ==
    [store EXCEPT ![coll] = Append(@, StoredDoc(rec, id))]

\* The external identifier create_document returns.
InsertedId(id) == PyStr(O(id))

TotalDocs(store) ==
    Len(store["user"]) + Len(store["bookingrequest"]) + Len(store["message"])
        + Len(store["journalentry"])

----------------------------------------------------------------------------
(* Inputs of the handlers. *)

TherapistRole == <<"t", "h", "e", "r", "a", "p", "i", "s", "t">>
ClientRole == <<"c", "l", "i", "e", "n", "t">>
T1 == <<"t", "1">>
T2 == <<"t", "2">>
CyEmail == <<"c", "y", "@", "e", "x", ".", "i", "o">>
DiEmail == <<"d", "i", "@", "e", "x", ".", "i", "o">>
DiEmailUpper == <<"d", "i", "@", "E", "X", ".", "i", "o">>
Thread == <<"t", "h">>

\* Request bodies for POST /api/therapists.
RawAnn ==
    [ role |-> S(TherapistRole),
      name |-> S(<<"A", "n", "n">>),
      email |-> S(<<"a", "n", "n", "@", "e", "x", ".", "i", "o">>),
      specialties |-> L(<<S(<<"T", "r", "a", "u", "m", "a">>), S(<<"C", "B",
          "T">>)>>),
      languages |-> L(<<S(<<"E", "n", "g", "l", "i", "s", "h">>)>>) ]
RawBo ==
    [ role |-> S(TherapistRole),
      name |-> S(<<"B", "o">>),
      email |-> S(<<"b", "o", "@", "E", "X", ".", "i", "o">>),
      bio |-> S(<<"c", "b", "t", " ", "c", "o", "a", "c", "h">>),
      specialties |-> L(<<S(<<"G", "r", "i", "e", "f">>)>>),
      virtual |-> B(FALSE),
      in_person |-> B(TRUE) ]
RawCy ==
    [ role |-> S(ClientRole),
      name |-> S(<<"C", "y">>),
      email |-> S(CyEmail),
      specialties |-> L(<<S(<<"C", "B", "T">>)>>) ]
RawNoEmail ==
    [ role |-> S(TherapistRole),
      name |-> S(<<"E", "d">>) ]
UserInputs == {RawAnn, RawBo, RawCy, RawNoEmail}

\* A client profile the collection holds before the first request.
RawDi ==
    [ role |-> S(ClientRole),
      name |-> S(<<"D", "i">>),
      email |-> S(DiEmail),
      virtual |-> B(FALSE) ]

\* Request bodies for POST /api/booking-requests.
RawBooking1 ==
    [ therapist_id |-> S(T1),
      client_name |-> S(<<"C", "y">>),
      client_email |-> S(CyEmail),
      preferred_times |-> L(<<S(<<"M", "o", "n", " ", "9">>)>>) ]
RawBooking2 ==
    [ therapist_id |-> S(T2),
      client_name |-> S(<<"D", "i">>),
      client_email |-> S(DiEmailUpper),
      note |-> S(<<"n">>) ]
RawBookingBad ==
    [ therapist_id |-> S(T1),
      client_name |-> S(<<"C", "y">>),
      client_email |-> S(<<"n", "o", "p", "e">>) ]
BookingInputs == {RawBooking1, RawBooking2, RawBookingBad}

\* Request bodies for POST /api/messages.
RawMessage1 ==
    [ therapist_id |-> S(T1),
      client_email |-> S(CyEmail),
      from_email |-> S(CyEmail),
      to_email |-> S(<<"a", "n", "n", "@", "e", "x", ".", "i", "o">>),
      content |-> S(<<"h", "i">>),
      thread_id |-> S(Thread) ]
RawMessage2 ==
    [ therapist_id |-> S(T2),
      client_email |-> S(DiEmail),
      from_email |-> S(<<"b", "o", "@", "e", "x", ".", "i", "o">>),
      to_email |-> S(DiEmail),
      content |-> S(<<"o", "k">>) ]
MessageInputs == {RawMessage1, RawMessage2, [therapist_id |-> S(T1)]}

\* Request bodies for POST /api/journal.
RawJournal1 ==
    [ client_email |-> S(CyEmail),
      title |-> S(<<"a">>),
      content |-> S(<<"b">>),
      mood |-> S(<<"o", "k">>) ]
RawJournal2 ==
    [ client_email |-> S(DiEmailUpper),
      title |-> S(<<"c">>),
      content |-> S(<<"d">>) ]
JournalInputs == {RawJournal1, RawJournal2, [title |-> S(<<"a">>)]}

\* Query parameters.
SearchParams == {PyNone, S(<<"c", "b", "t">>)}
SpecialtyParams == {PyNone, S(<<>>), S(<<"c", "b", "t">>), S(<<".">>)}
LanguageParams == {PyNone, S(<<"e", "n">>)}
FlagParams == {PyNone, B(TRUE), B(FALSE)}
TherapistIdParams == {PyNone, S(<<>>), S(T1)}
EmailParams == {PyNone, S(CyEmail), S(DiEmailUpper), S(<<"n", "o", "p", "e">>)}
ThreadParams == {PyNone, S(Thread)}
PathIds == {ObjectIdStr(k) : k \in 1..(MaxDocs + 2)} \cup {<<"n", "o", "p", "e">>}

\* The sample profiles of seed.
SampleMaya ==
    [ role |-> S(TherapistRole),
      name |-> S(<<"D", "r", ".", " ", "M", "a", "y", "a", " ", "P", "a", "t",
          "e", "l">>),
      email |-> S(<<"m", "a", "y", "a", ".", "p", "a", "t", "e", "l", "@", "e",
          "x", "a", "m", "p", "l", "e", ".", "c", "o", "m">>),
      bio |-> S(<<"T", "r", "a", "u", "m", "a", "-", "i", "n", "f", "o", "r",
          "m", "e", "d", " ", "t", "h", "e", "r", "a", "p", "i", "s", "t", " ", "f",
          "o", "c", "u", "s", "i", "n", "g", " ", "o", "n", " ", "m", "i", "n", "d",
          "f", "u", "l", "n", "e", "s", "s", " ", "a", "n", "d", " ", "C", "B", "T",
          ".">>),
      specialties |-> L(<<S(<<"T", "r", "a", "u", "m", "a">>), S(<<"C", "B",
          "T">>), S(<<"M", "i", "n", "d", "f", "u", "l", "n", "e", "s", "s">>)>>),
      modalities |-> L(<<S(<<"C", "B", "T">>), S(<<"A", "C", "T">>)>>),
      languages |-> L(<<S(<<"E", "n", "g", "l", "i", "s", "h">>), S(<<"H", "i",
          "n", "d", "i">>)>>),
      location |-> S(<<"T", "o", "r", "o", "n", "t", "o", ",", " ", "O", "N">>),
      virtual |-> B(TRUE),
      in_person |-> B(TRUE),
      fee_min |-> I(120),
      fee_max |-> I(180),
      years_experience |-> I(8) ]
SampleJean ==
    [ role |-> S(TherapistRole),
      name |-> S(<<"J", "e", "a", "n", "-", "L", "u", "c", " ", "T", "r", "e",
          "m", "b", "l", "a", "y">>),
      email |-> S(<<"j", "e", "a", "n", "l", "u", "c", ".", "t", "@", "e", "x",
          "a", "m", "p", "l", "e", ".", "c", "o", "m">>),
      bio |-> S(<<"F", "r", "a", "n", "c", "o", "p", "h", "o", "n", "e", " ",
          "t", "h", "e", "r", "a", "p", "i", "s", "t", " ", "s", "p", "e", "c", "i",
          "a", "l", "i", "z", "i", "n", "g", " ", "i", "n", " ", "c", "o", "u", "p",
          "l", "e", "s", " ", "a", "n", "d", " ", "f", "a", "m", "i", "l", "y", " ",
          "s", "y", "s", "t", "e", "m", "s", ".">>),
      specialties |-> L(<<S(<<"C", "o", "u", "p", "l", "e", "s">>), S(<<"F",
          "a", "m", "i", "l", "y">>), S(<<"A", "n", "x", "i", "e", "t", "y">>)>>),
      modalities |-> L(<<S(<<"E", "F", "T">>), S(<<"S", "F", "T">>)>>),
      languages |-> L(<<S(<<"F", "r", "e", "n", "c", "h">>), S(<<"E", "n", "g",
          "l", "i", "s", "h">>)>>),
      location |-> S(<<"M", "o", "n", "t", "r", "e", "a", "l", ",", " ", "Q",
          "C">>),
      virtual |-> B(TRUE),
      in_person |-> B(FALSE),
      fee_min |-> I(110),
      fee_max |-> I(160),
      years_experience |-> I(12) ]
SampleSofia ==
    [ role |-> S(TherapistRole),
      name |-> S(<<"S", "o", "f", "i", "a", " ", "R", "a", "m", "i", "r", "e",
          "z">>),
      email |-> S(<<"s", "o", "f", "i", "a", ".", "r", "@", "e", "x", "a", "m",
          "p", "l", "e", ".", "c", "o", "m">>),
      bio |-> S(<<"B", "i", "l", "i", "n", "g", "u", "a", "l", " ", "t", "h",
          "e", "r", "a", "p", "i", "s", "t", " ", "h", "e", "l", "p", "i", "n", "g",
          " ", "w", "i", "t", "h", " ", "s", "t", "r", "e", "s", "s", ",", " ", "b",
          "u", "r", "n", "o", "u", "t", ",", " ", "a", "n", "d", " ", "l", "i", "f",
          "e", " ", "t", "r", "a", "n", "s", "i", "t", "i", "o", "n", "s", ".">>),
      specialties |-> L(<<S(<<"S", "t", "r", "e", "s", "s">>), S(<<"B", "u",
          "r", "n", "o", "u", "t">>), S(<<"T", "r", "a", "n", "s", "i", "t", "i",
          "o", "n", "s">>)>>),
      modalities |-> L(<<S(<<"C", "B", "T">>), S(<<"N", "a", "r", "r", "a", "t",
          "i", "v", "e">>)>>),
      languages |-> L(<<S(<<"S", "p", "a", "n", "i", "s", "h">>), S(<<"E", "n",
          "g", "l", "i", "s", "h">>)>>),
      location |-> S(<<"V", "a", "n", "c", "o", "u", "v", "e", "r", ",", " ",
          "B", "C">>),
      virtual |-> B(TRUE),
      in_person |-> B(TRUE),
      fee_min |-> I(100),
      fee_max |-> I(150),
      years_experience |-> I(6) ]
\* The validated models, in the order of the list.
sample == <<Validate("User", SampleMaya).rec, Validate("User", SampleJean).rec,
           Validate("User", SampleSofia).rec>>

----------------------------------------------------------------------------
(* The handlers of src/main.py.  A request is taken when no response is    *)
(* pending; `last` then holds the request and its response until Respond.  *)

Idle == [op |-> "idle", args |-> <<>>, status |-> 0, body |-> <<>>]

Response(op, args, status, body) == [op |-> op, args |-> args, status |-> status, body |-> body]

\* HTTPException(status_code, detail) as rendered to the client.
HTTPError(status, detail) == [status |-> status, detail |-> detail]

\* [to_str_id(d) for d in docs]
Normalized(docs) == [i \in 1..Len(docs) |-> to_str_id(Dict(docs[i]))]

\* Documents inserted through the create_* handlers so far.
Created == nextId - 2 - Cardinality(seeded)
CanInsert == Created < MaxDocs

Quiet == UNCHANGED <<norm, val, procs>>

\* The query of list_therapists with `if virtual:` / `if in_person:` tests.
TherapistQueryTruthy(search, specialty, language, virtual, in_person) ==
    <<Eq("role", S(TherapistRole))>>
    \o (IF Truthy(search)
        THEN <<Or(<<Regex("name", search), Regex("bio", search),
                    ElemMatchRegex("specialties", search)>>)>>
        ELSE <<>>)
    \o (IF Truthy(specialty) THEN <<ElemMatchRegex("specialties", specialty)>> ELSE <<>>)
    \o (IF Truthy(language) THEN <<ElemMatchRegex("languages", language)>> ELSE <<>>)
    \o (IF Truthy(virtual) THEN <<Eq("virtual", virtual)>> ELSE <<>>)
    \o (IF Truthy(in_person) THEN <<Eq("in_person", in_person)>> ELSE <<>>)

\* The query of list_therapists starting from an empty query.
TherapistQueryNoRole(search, specialty, language, virtual, in_person) ==
    (IF Truthy(search)
        THEN <<Or(<<Regex("name", search), Regex("bio", search),
                    ElemMatchRegex("specialties", search)>>)>>
        ELSE <<>>)
    \o (IF Truthy(specialty) THEN <<ElemMatchRegex("specialties", specialty)>> ELSE <<>>)
    \o (IF Truthy(language) THEN <<ElemMatchRegex("languages", language)>> ELSE <<>>)
    \o (IF ~IsNone(virtual) THEN <<Eq("virtual", virtual)>> ELSE <<>>)
    \o (IF ~IsNone(in_person) THEN <<Eq("in_person", in_person)>> ELSE <<>>)

\* The query list_therapists builds from its parameters.
TherapistQuery(search, specialty, language, virtual, in_person) ==
    <<Eq("role", S(TherapistRole))>>
    \o (IF Truthy(search)
        THEN <<Or(<<Regex("name", search), Regex("bio", search),
                    ElemMatchRegex("specialties", search)>>)>>
        ELSE <<>>)
    \o (IF Truthy(specialty) THEN <<ElemMatchRegex("specialties", specialty)>> ELSE <<>>)
    \o (IF Truthy(language) THEN <<ElemMatchRegex("languages", language)>> ELSE <<>>)
    \o (IF ~IsNone(virtual) THEN <<Eq("virtual", virtual)>> ELSE <<>>)
    \o (IF ~IsNone(in_person) THEN <<Eq("in_person", in_person)>> ELSE <<>>)

\* What list_therapists returns on a store.
TherapistsFound(store, search, specialty, language, virtual, in_person) ==
    Normalized(get_documents(store, "user",
        TherapistQuery(search, specialty, language, virtual, in_person), PyNone))

list_therapists(search, specialty, language, virtual, in_person) ==
    /\ last = Idle
    /\ last' = Response("list_therapists",
                   [search |-> search, specialty |-> specialty, language |-> language,
                    virtual |-> virtual, in_person |-> in_person],
                   200,
                   TherapistsFound(db, search, specialty, language, virtual, in_person))
    /\ UNCHANGED <<db, nextId, seeded>>
    /\ Quiet

\* create_therapist without the role test.
create_therapist_any_role(raw) ==
    /\ last = Idle
    /\ LET r == Validate("User", raw)
       IN IF ~r.ok
          THEN /\ last' = Response("create_therapist", raw, 422, r.errors)
               /\ UNCHANGED <<db, nextId>>
          ELSE /\ CanInsert
               /\ db' = create_document(db, "user", r.rec, nextId)
               /\ nextId' = nextId + 1
               /\ last' = Response("create_therapist", raw, 200, [id |-> InsertedId(nextId)])
    /\ UNCHANGED seeded
    /\ Quiet

\* create_therapist writing the profile over the collection.
create_therapist_replacing(raw) ==
    /\ last = Idle
    /\ LET r == Validate("User", raw)
       IN IF ~r.ok
          THEN /\ last' = Response("create_therapist", raw, 422, r.errors)
               /\ UNCHANGED <<db, nextId>>
          ELSE IF r.rec["role"] # S(TherapistRole)
               THEN /\ last' = Response("create_therapist", raw, 400,
                                   HTTPError(400, "role must be 'therapist'"))
                    /\ UNCHANGED <<db, nextId>>
               ELSE /\ CanInsert
                    /\ db' = [db EXCEPT !["user"] = <<StoredDoc(r.rec, nextId)>>]
                    /\ nextId' = nextId + 1
                    /\ last' = Response("create_therapist", raw, 200, [id |-> InsertedId(nextId)])
    /\ UNCHANGED seeded
    /\ Quiet

create_therapist(raw) ==
    /\ last = Idle
    /\ LET r == Validate("User", raw)
       IN IF ~r.ok
          THEN /\ last' = Response("create_therapist", raw, 422, r.errors)
               /\ UNCHANGED <<db, nextId>>
          ELSE IF r.rec["role"] # S(TherapistRole)
               THEN /\ last' = Response("create_therapist", raw, 400,
                                   HTTPError(400, "role must be 'therapist'"))
                    /\ UNCHANGED <<db, nextId>>
               ELSE /\ CanInsert
                    /\ db' = create_document(db, "user", r.rec, nextId)
                    /\ nextId' = nextId + 1
                    /\ last' = Response("create_therapist", raw, 200, [id |-> InsertedId(nextId)])
    /\ UNCHANGED seeded
    /\ Quiet

\* The exception the try block of get_therapist raises, if any.
GetTherapistRaised(store, therapist_id) ==
    IF ~ObjectIdValid(therapist_id) THEN HTTPError(0, "InvalidId")
    ELSE IF ~Truthy(find_one(store, "user", <<Eq("_id", ObjectIdOf(therapist_id))>>))
         THEN HTTPError(404, "Not found")
         ELSE HTTPError(0, "")

\* The response of get_therapist: `except Exception` answers every exception
\* raised in the try block, the HTTPException of the not-found branch included.
GetTherapistResponse(store, therapist_id) ==
    LET raised == GetTherapistRaised(store, therapist_id)
    IN IF raised.detail # ""
       THEN Response("get_therapist", therapist_id, 400, HTTPError(400, "Invalid id"))
       ELSE Response("get_therapist", therapist_id, 200,
                to_str_id(find_one(store, "user", <<Eq("_id", ObjectIdOf(therapist_id))>>)))

get_therapist(therapist_id) ==
    /\ last = Idle
    /\ last' = GetTherapistResponse(db, therapist_id)
    /\ UNCHANGED <<db, nextId, seeded>>
    /\ Quiet

\* The POST handlers that insert the validated body as it is.
Create(op, kind, coll, raw) ==
    /\ last = Idle
    /\ LET r == Validate(kind, raw)
       IN IF ~r.ok
          THEN /\ last' = Response(op, raw, 422, r.errors)
               /\ UNCHANGED <<db, nextId>>
          ELSE /\ CanInsert
               /\ db' = create_document(db, coll, r.rec, nextId)
               /\ nextId' = nextId + 1
               /\ last' = Response(op, raw, 200, [id |-> InsertedId(nextId)])
    /\ UNCHANGED seeded
    /\ Quiet

create_booking(req) == Create("create_booking", "BookingRequest", "bookingrequest", req)

send_message(msg) == Create("send_message", "Message", "message", msg)

create_journal(entry) == Create("create_journal", "JournalEntry", "journalentry", entry)

\* An Optional[EmailStr] parameter is acceptable when unset or a valid address.
EmailParamOk(e) == IsNone(e) \/ EmailValid(e.v)

\* str(client_email) of an accepted parameter.
EmailParamStr(e) == S(EmailNormalize(e.v))

BookingQuery(therapist_id, client_email) ==
    (IF Truthy(therapist_id) THEN <<Eq("therapist_id", therapist_id)>> ELSE <<>>)
    \o (IF Truthy(client_email) THEN <<Eq("client_email", EmailParamStr(client_email))>> ELSE <<>>)

list_bookings(therapist_id, client_email) ==
    /\ last = Idle
    /\ last' =
         LET args == [therapist_id |-> therapist_id, client_email |-> client_email]
         IN IF ~EmailParamOk(client_email)
            THEN Response("list_bookings", args, 422, {[field |-> "client_email", error |-> "format"]})
            ELSE Response("list_bookings", args, 200,
                     Normalized(get_documents(db, "bookingrequest",
                         BookingQuery(therapist_id, client_email), PyNone)))
    /\ UNCHANGED <<db, nextId, seeded>>
    /\ Quiet

MessageQuery(therapist_id, client_email, thread_id) ==
    (IF Truthy(therapist_id) THEN <<Eq("therapist_id", therapist_id)>> ELSE <<>>)
    \o (IF Truthy(client_email) THEN <<Eq("client_email", EmailParamStr(client_email))>> ELSE <<>>)
    \o (IF Truthy(thread_id) THEN <<Eq("thread_id", thread_id)>> ELSE <<>>)

\* db["message"].find(query).sort("created_at", 1): oldest first.
list_messages(therapist_id, client_email, thread_id) ==
    /\ last = Idle
    /\ last' =
         LET args == [therapist_id |-> therapist_id, client_email |-> client_email,
                      thread_id |-> thread_id]
         IN IF ~EmailParamOk(client_email)
            THEN Response("list_messages", args, 422, {[field |-> "client_email", error |-> "format"]})
            ELSE Response("list_messages", args, 200,
                     Normalized(find_many(db, "message",
                         MessageQuery(therapist_id, client_email, thread_id))))
    /\ UNCHANGED <<db, nextId, seeded>>
    /\ Quiet

\* db["journalentry"].find({...}).sort("created_at", -1): newest first.
list_journal(client_email) ==
    /\ last = Idle
    /\ last' =
         LET args == [client_email |-> client_email]
         IN IF IsNone(client_email) \/ ~EmailParamOk(client_email)
            THEN Response("list_journal", args, 422, {[field |-> "client_email", error |-> "format"]})
            ELSE Response("list_journal", args, 200,
                     Normalized(Reverse(find_many(db, "journalentry",
                         <<Eq("client_email", EmailParamStr(client_email))>>))))
    /\ UNCHANGED <<db, nextId, seeded>>
    /\ Quiet

----------------------------------------------------------------------------
(* seed: for each sample profile, find_one by email, then insert when       *)
(* nothing was found.  A request thread can be preempted between the two    *)
(* store calls.                                                             *)

\* existing = db["user"].find_one({"email": s.email})
SeedExisting(store, i) == find_one(store, "user", <<Eq("email", sample[i]["email"])>>)

\* The whole loop from sample i on, run without interruption.
RECURSIVE SeedLoop(_, _, _, _)
SeedLoop(store, id, i, inserted) ==
    IF i > Len(sample) THEN [db |-> store, nextId |-> id, inserted |-> inserted]
    ELSE IF ~Truthy(SeedExisting(store, i))
         THEN SeedLoop(create_document(store, "user", sample[i], id), id + 1, i + 1,
                       Append(inserted, InsertedId(id)))
         ELSE SeedLoop(store, id, i + 1, inserted)

SeedResponse(inserted) ==
    Response("seed", <<>>, 200, [inserted |-> inserted, count |-> Len(inserted)])

\* POST /seed handled with no other request in between.
seed ==
    /\ last = Idle
    /\ LET run == SeedLoop(db, nextId, 1, <<>>)
       IN /\ db' = run.db
          /\ nextId' = run.nextId
          /\ seeded' = seeded \cup (nextId..(run.nextId - 1))
          /\ last' = SeedResponse(run.inserted)
    /\ Quiet

\* The client reads the response; the next request can be taken.
Respond ==
    /\ last # Idle
    /\ last' = Idle
    /\ UNCHANGED <<db, nextId, seeded>>
    /\ Quiet

\* The seed requests of the seeding specification.
Procs == 1..MaxSeedRuns

ProcIdle == [pc |-> "idle", i |-> 1, inserted |-> <<>>, allStored |-> FALSE]

AllSampleEmailsStored(store) == \A i \in 1..Len(sample) : Truthy(SeedExisting(store, i))

\* The loop moves to the next sample, or the handler returns.
SeedAdvance(pr) ==
    IF pr.i < Len(sample) THEN [pr EXCEPT !.pc = "find", !.i = pr.i + 1]
    ELSE [pr EXCEPT !.pc = "done"]

SeedBegin(p) ==
    /\ procs[p].pc = "idle"
    /\ procs' = [procs EXCEPT ![p] = [pc |-> "find", i |-> 1, inserted |-> <<>>,
                                      allStored |-> AllSampleEmailsStored(db)]]
    /\ UNCHANGED <<db, nextId, last, norm, val, seeded>>

\* Line 246-247: the lookup and the test of its result.
SeedFind(p) ==
    /\ procs[p].pc = "find"
    /\ procs' = [procs EXCEPT ![p] =
                    IF ~Truthy(SeedExisting(db, procs[p].i))
                    THEN [@ EXCEPT !.pc = "insert"]
                    ELSE SeedAdvance(@)]
    /\ UNCHANGED <<db, nextId, last, norm, val, seeded>>

\* Line 248: the insert decided by the earlier lookup.
SeedInsert(p) ==
    /\ procs[p].pc = "insert"
    /\ db' = create_document(db, "user", sample[procs[p].i], nextId)
    /\ nextId' = nextId + 1
    /\ seeded' = seeded \cup {nextId}
    /\ procs' = [procs EXCEPT ![p] =
                    SeedAdvance([@ EXCEPT !.inserted = Append(@, InsertedId(nextId))])]
    /\ UNCHANGED <<last, norm, val>>

----------------------------------------------------------------------------
(* Raw inputs handed to validation. *)

FullUser ==
    [ role |-> S(TherapistRole), name |-> S(<<"A", "n", "n">>), email |-> S(CyEmail),
      photo_url |-> S(<<"u">>), bio |-> S(<<"b">>),
      specialties |-> L(<<S(<<"C", "B", "T">>)>>), modalities |-> L(<<S(<<"A", "C", "T">>)>>),
      languages |-> L(<<S(<<"e", "n">>)>>), location |-> S(<<"l">>),
      virtual |-> B(FALSE), in_person |-> B(TRUE),
      fee_min |-> I(1), fee_max |-> I(2), years_experience |-> I(3),
      certifications |-> L(<<S(<<"c">>)>>) ]

FullAvailability ==
    [ therapist_id |-> S(T1), weekday |-> I(3),
      time_ranges |-> L(<<S(<<"0", "9", ":", "0", "0", "-", "1", "2", ":", "0", "0">>)>>),
      virtual |-> B(FALSE), in_person |-> B(TRUE) ]

FullBooking ==
    [ therapist_id |-> S(T1), client_name |-> S(<<"C", "y">>), client_email |-> S(CyEmail),
      note |-> S(<<"n">>), preferred_times |-> L(<<S(<<"M", "o", "n">>)>>),
      status |-> S(<<"a", "c", "c", "e", "p", "t", "e", "d">>) ]

FullMessage ==
    [ therapist_id |-> S(T1), client_email |-> S(CyEmail), from_email |-> S(CyEmail),
      to_email |-> S(DiEmailUpper), content |-> S(<<"h", "i">>), thread_id |-> S(Thread) ]

FullJournal ==
    [ client_email |-> S(CyEmail), title |-> S(<<"t">>), content |-> S(<<"c">>),
      mood |-> S(<<"o", "k">>) ]

FullInput(kind) ==
    CASE kind = "User" -> FullUser
      [] kind = "TherapistAvailability" -> FullAvailability
      [] kind = "BookingRequest" -> FullBooking
      [] kind = "Message" -> FullMessage
      [] kind = "JournalEntry" -> FullJournal

Without(raw, omitted) == [k \in DOMAIN raw \ omitted |-> raw[k]]

SmallSubsets(X, n) == {Y \in SUBSET X : Cardinality(Y) <= n}

\* Values of the wrong shape for a field, and weekdays around the range.
BadValues == {PyNone, S(<<"n", "o", "p", "e">>), L(<<I(1)>>), I(WeekdayMin - 1), I(WeekdayMin),
              I(WeekdayMax), I(WeekdayMax + 1)}

ValInputs ==
    {[kind |-> k, raw |-> Without(FullInput(k), X)] :
        k \in {"User"}, X \in SmallSubsets(DOMAIN FullUser, MaxOmit)}
    \cup {[kind |-> k, raw |-> Without(FullInput(k), X)] :
        k \in {"TherapistAvailability"}, X \in SmallSubsets(DOMAIN FullAvailability, MaxOmit)}
    \cup {[kind |-> k, raw |-> Without(FullInput(k), X)] :
        k \in {"BookingRequest"}, X \in SmallSubsets(DOMAIN FullBooking, MaxOmit)}
    \cup {[kind |-> k, raw |-> Without(FullInput(k), X)] :
        k \in {"Message"}, X \in SmallSubsets(DOMAIN FullMessage, MaxOmit)}
    \cup {[kind |-> k, raw |-> Without(FullInput(k), X)] :
        k \in {"JournalEntry"}, X \in SmallSubsets(DOMAIN FullJournal, MaxOmit)}
    \cup {[kind |-> k, raw |-> [FullInput(k) EXCEPT ![f] = x]] :
        k \in {"TherapistAvailability"}, f \in DOMAIN FullAvailability, x \in BadValues}
    \cup {[kind |-> k, raw |-> [FullInput(k) EXCEPT ![f] = x]] :
        k \in {"BookingRequest"}, f \in DOMAIN FullBooking, x \in BadValues}

ValIdle == [phase |-> 0, kind |-> "User", raw |-> FullUser, result |-> [ok |-> FALSE, errors |-> {}, rec |-> <<>>]]

\* Model construction from the raw input.
ValidateInput ==
    /\ val.phase = 0
    /\ val' = [val EXCEPT !.phase = 1, !.result = Validate(val.kind, val.raw)]
    /\ UNCHANGED <<db, nextId, last, norm, procs, seeded>>

----------------------------------------------------------------------------
(* Specifications. *)

EmptyStore == [c \in Collections |-> <<>>]

\* The user collection holds clients and therapists; a client profile may be
\* stored before the first request.
InitialStores ==
    {EmptyStore, [EmptyStore EXCEPT !["user"] = <<StoredDoc(Validate("User", RawDi).rec, 1)>>]}

InitStore ==
    /\ db \in InitialStores
    /\ nextId = 2
    /\ seeded = {}

InitRest ==
    /\ last = Idle
    /\ norm = NormIdle
    /\ val = ValIdle
    /\ procs = [p \in Procs |-> ProcIdle]

\* The API: requests handled one after another.
Init == InitStore /\ InitRest

Next ==
    \/ \E search \in SearchParams, specialty \in SpecialtyParams, language \in LanguageParams,
          virtual \in FlagParams, in_person \in FlagParams :
            list_therapists(search, specialty, language, virtual, in_person)
    \/ \E raw \in UserInputs : create_therapist(raw)
    \/ \E therapist_id \in PathIds : get_therapist(therapist_id)
    \/ \E req \in BookingInputs : create_booking(req)
    \/ \E therapist_id \in TherapistIdParams, client_email \in EmailParams :
            list_bookings(therapist_id, client_email)
    \/ \E msg \in MessageInputs : send_message(msg)
    \/ \E therapist_id \in TherapistIdParams, client_email \in EmailParams,
          thread_id \in ThreadParams :
            list_messages(therapist_id, client_email, thread_id)
    \/ \E entry \in JournalInputs : create_journal(entry)
    \/ \E client_email \in EmailParams : list_journal(client_email)
    \/ seed
    \/ Respond

Spec == Init /\ [][Next]_vars

\* to_str_id applied, and applied again, to a document.
InitNorm ==
    /\ db = EmptyStore /\ nextId = 2 /\ seeded = {}
    /\ last = Idle /\ val = ValIdle /\ procs = [p \in Procs |-> ProcIdle]
    /\ norm \in {[NormIdle EXCEPT !.doc = d] : d \in NormDocs}

NextNorm == Normalize \/ NormalizeAgain

SpecNorm == InitNorm /\ [][NextNorm]_vars

\* Validation of a raw input against its schema.
InitValidate ==
    /\ db = EmptyStore /\ nextId = 2 /\ seeded = {}
    /\ last = Idle /\ norm = NormIdle /\ procs = [p \in Procs |-> ProcIdle]
    /\ val \in {[ValIdle EXCEPT !.kind = x.kind, !.raw = x.raw] : x \in ValInputs}

NextValidate == ValidateInput

SpecValidate == InitValidate /\ [][NextValidate]_vars

\* Seed requests served by concurrent threads.
InitSeed == InitStore /\ InitRest

NextSeed == \E p \in Procs : SeedBegin(p) \/ SeedFind(p) \/ SeedInsert(p)

SpecSeed == InitSeed /\ [][NextSeed]_vars

----------------------------------------------------------------------------
(* Properties. *)

Users == {db["user"][i] : i \in 1..Len(db["user"])}
DocsOf(coll) == {db[coll][i] : i \in 1..Len(db[coll])}
Body == {last.body[i] : i \in 1..Len(last.body)}

\* The response lists exactly the documents D, each once, normalised.
ReturnsExactly(D) ==
    /\ Len(last.body) = Cardinality(D)
    /\ Body = {to_str_id(Dict(d)) : d \in D}

\* The record of the response that stands for document d, if any.
ReturnedFor(d) == {r \in Body : r.v["id"] = S(ObjectIdStr(d["_id"].v))}

Listed(op) == last.op = op /\ last.status = 200

\* C1: get_therapist with a well-formed identifier that no user document
\* carries answers 404 "Not found"; 400 "Invalid id" is answered only for a
\* malformed identifier.
C1_NotFoundIs404 ==
    last.op = "get_therapist" =>
        /\ (ObjectIdValid(last.args) /\ \A d \in Users : d["_id"] # ObjectIdOf(last.args))
               => (last.status = 404 /\ last.body.detail = "Not found")
        /\ (last.status = 400 /\ last.body.detail = "Invalid id") => ~ObjectIdValid(last.args)

NoTherapistParams ==
    /\ IsNone(last.args.search) /\ IsNone(last.args.specialty) /\ IsNone(last.args.language)
    /\ IsNone(last.args.virtual) /\ IsNone(last.args.in_person)

\* C2 (as stated): with no parameter supplied, list_therapists returns every
\* document of the user collection, and list_bookings and list_messages every
\* document of theirs.
C2_UnfilteredReturnsAll ==
    /\ (Listed("list_therapists") /\ NoTherapistParams) => ReturnsExactly(Users)
    /\ (Listed("list_bookings") /\ IsNone(last.args.therapist_id) /\ IsNone(last.args.client_email))
           => ReturnsExactly(DocsOf("bookingrequest"))
    /\ (Listed("list_messages") /\ IsNone(last.args.therapist_id) /\ IsNone(last.args.client_email)
           /\ IsNone(last.args.thread_id))
           => ReturnsExactly(DocsOf("message"))

\* C2 (amended): with no parameter supplied, list_therapists returns exactly
\* the documents of the user collection whose role is "therapist";
\* list_bookings and list_messages return every document of their collection.
C2_UnfilteredReturnsKind ==
    /\ (Listed("list_therapists") /\ NoTherapistParams)
           => ReturnsExactly({d \in Users : d["role"] = S(TherapistRole)})
    /\ (Listed("list_bookings") /\ IsNone(last.args.therapist_id) /\ IsNone(last.args.client_email))
           => ReturnsExactly(DocsOf("bookingrequest"))
    /\ (Listed("list_messages") /\ IsNone(last.args.therapist_id) /\ IsNone(last.args.client_email)
           /\ IsNone(last.args.thread_id))
           => ReturnsExactly(DocsOf("message"))

\* An unfiltered therapist listing over a collection holding a client too.
C2_Witness ==
    /\ Listed("list_therapists") /\ NoTherapistParams
    /\ Len(last.body) >= 2
    /\ \E d \in Users : d["role"] = S(ClientRole)

IdsOf(records) == {records[i].v["id"] : i \in 1..Len(records)}

\* C5: the virtual and in_person filters of list_therapists are tri-state.
\* Supplied, a flag keeps only the documents whose field equals it; unset, it
\* constrains nothing: the result is the union of the results for true and
\* for false, the other parameters being the same.
C5_TriStateFlags ==
    Listed("list_therapists") =>
        LET a == last.args
        IN /\ ~IsNone(a.virtual) => \A r \in Body : r.v["virtual"] = a.virtual
           /\ ~IsNone(a.in_person) => \A r \in Body : r.v["in_person"] = a.in_person
           /\ IsNone(a.virtual) =>
                  IdsOf(last.body) =
                      IdsOf(TherapistsFound(db, a.search, a.specialty, a.language, B(TRUE), a.in_person))
                      \cup IdsOf(TherapistsFound(db, a.search, a.specialty, a.language, B(FALSE), a.in_person))
           /\ IsNone(a.in_person) =>
                  IdsOf(last.body) =
                      IdsOf(TherapistsFound(db, a.search, a.specialty, a.language, a.virtual, B(TRUE)))
                      \cup IdsOf(TherapistsFound(db, a.search, a.specialty, a.language, a.virtual, B(FALSE)))

\* A listing with virtual unset that holds a virtual and a non-virtual profile.
C5_Witness ==
    /\ Listed("list_therapists") /\ IsNone(last.args.virtual)
    /\ \E r1, r2 \in Body : r1.v["virtual"] = B(TRUE) /\ r2.v["virtual"] = B(FALSE)

\* The therapists stored through create_therapist.
CreatedTherapists ==
    {d \in Users : d["role"] = S(TherapistRole) /\ d["_id"].v >= 2 /\ d["_id"].v \notin seeded}

HasSpecialtyContaining(d, text) ==
    \E k \in 1..Len(d["specialties"].v) : ContainsIgnoreCase(d["specialties"].v[k].v, text)

\* C6: a user created through create_therapist is returned by a later
\* list_therapists call filtering by a specialty text that one of the user's
\* specialties contains, ignoring case; the record carries the external id and
\* no native identifier field; a user none of whose specialties contains the
\* text is not returned.
C6_SpecialtyIsSubstringFilter ==
    (Listed("list_therapists") /\ Truthy(last.args.specialty)) =>
        \A d \in CreatedTherapists :
            /\ (HasSpecialtyContaining(d, last.args.specialty.v)
                    /\ IsNone(last.args.search) /\ IsNone(last.args.language)
                    /\ IsNone(last.args.virtual) /\ IsNone(last.args.in_person))
                   => \E r \in ReturnedFor(d) : "_id" \notin DOMAIN r.v
            /\ ~HasSpecialtyContaining(d, last.args.specialty.v) => ReturnedFor(d) = {}

\* C8: create_therapist on a valid User whose role is not "therapist" answers
\* 400 "role must be 'therapist'" and leaves the user collection as it was.
C8_RoleRuleRejects ==
    [][(/\ last = Idle
        /\ last'.op = "create_therapist"
        /\ Validate("User", last'.args).ok
        /\ Validate("User", last'.args).rec["role"] # S(TherapistRole))
       => (/\ last'.status = 400
           /\ last'.body.detail = "role must be 'therapist'"
           /\ db' = db)]_vars

\* A client profile refused by create_therapist.
C8_Witness ==
    /\ last.op = "create_therapist" /\ last.status = 400
    /\ last.args["role"] = S(ClientRole)

IsPrefix(q, r) == Len(q) <= Len(r) /\ SubSeq(r, 1, Len(q)) = q

ReadOps == {"list_therapists", "get_therapist", "list_bookings", "list_messages", "list_journal"}

\* C9: documents are never updated or deleted: every collection only grows,
\* a stored document keeps its identifier and fields, no two documents share
\* an identifier, and the read handlers leave every collection unchanged.
C9_AppendOnly ==
    [][/\ \A c \in Collections : IsPrefix(db[c], db'[c])
       /\ (last = Idle /\ last'.op \in ReadOps) => db' = db
       /\ \A c1, c2 \in Collections :
             \A i \in 1..Len(db'[c1]), j \in 1..Len(db'[c2]) :
                 (db'[c1][i]["_id"] = db'[c2][j]["_id"]) => (c1 = c2 /\ i = j)]_vars

\* A read answered over a collection of several documents.
C9_Witness ==
    /\ last.op \in ReadOps
    /\ Len(db["user"]) >= 3
    /\ TotalDocs(db) > Len(db["user"])

\* C10: seed inserts at most one document per sample email, also when the
\* store calls of several seed requests interleave, and a seed request that
\* starts when the three sample emails are stored inserts nothing.
C10_SeedNoDuplicates ==
    /\ \A i \in 1..Len(sample) :
          Cardinality({d \in Users : d["_id"].v \in seeded /\ d["email"] = sample[i]["email"]}) <= 1
    /\ \A p \in Procs :
          (procs[p].pc = "done" /\ procs[p].allStored) => procs[p].inserted = <<>>

HasNativeId(doc) == doc.t = "dict" /\ "_id" \in DOMAIN doc.v /\ doc.v["_id"].t = "oid"

\* x is the string form of the native identifier o.
IsStringFormOf(x, o) == x.t = "str" /\ ObjectIdValid(x.v) /\ ObjectIdOf(x.v) = o

\* C3: for a document with native identifier X, to_str_id yields a record
\* whose id is the string form of X, without the "_id" key, in which no field
\* and no element of a sequence field is a native identifier; values and
\* elements that are not identifiers are kept as they are.
C3_IdentifiersExternalised ==
    (norm.phase >= 1 /\ HasNativeId(norm.doc)) =>
        LET d == norm.doc.v
            r == norm.out.v
        IN /\ norm.out.t = "dict"
           /\ DOMAIN r = (DOMAIN d \ {"_id"}) \cup {"id"}
           /\ IsStringFormOf(r["id"], d["_id"])
           /\ \A k \in DOMAIN r :
                 /\ r[k].t # "oid"
                 /\ r[k].t = "list" => \A i \in 1..Len(r[k].v) : r[k].v[i].t # "oid"
           /\ \A k \in DOMAIN d \ {"_id", "id"} :
                 CASE d[k].t = "oid" -> IsStringFormOf(r[k], d[k])
                   [] d[k].t = "list" ->
                        /\ r[k].t = "list" /\ Len(r[k].v) = Len(d[k].v)
                        /\ \A i \in 1..Len(d[k].v) :
                              IF d[k].v[i].t = "oid"
                              THEN IsStringFormOf(r[k].v[i], d[k].v[i])
                              ELSE r[k].v[i] = d[k].v[i]
                   [] OTHER -> r[k] = d[k]

\* A normalised document that held identifiers as a field and inside a list,
\* beside a list element that is no identifier.
C3_Witness ==
    /\ norm.phase >= 1 /\ HasNativeId(norm.doc)
    /\ "ref" \in DOMAIN norm.doc.v /\ norm.doc.v["ref"].t = "oid"
    /\ "tags" \in DOMAIN norm.doc.v
    /\ \E i, j \in 1..Len(norm.doc.v["tags"].v) :
          norm.doc.v["tags"].v[i].t = "oid" /\ norm.doc.v["tags"].v[j].t = "str"

\* C7: to_str_id applied to its own result changes nothing, and an empty or
\* absent input is returned as it is.
C7_Idempotent ==
    /\ norm.phase = 2 => norm.out2 = norm.out
    /\ (norm.phase >= 1 /\ ~Truthy(norm.doc)) => (norm.out.t = norm.doc.t /\ norm.out = norm.doc)

\* to_str_id applied twice to a document it rewrites.
C7_Witness ==
    /\ norm.phase = 2 /\ HasNativeId(norm.doc)
    /\ norm.out # norm.doc
    /\ "tags" \in DOMAIN norm.doc.v
    /\ \E i \in 1..Len(norm.doc.v["tags"].v) : norm.doc.v["tags"].v[i].t = "oid"

\* The sequence-typed fields the claim names, by kind.
SequenceFields(kind) ==
    CASE kind = "User" -> {"specialties", "modalities", "languages", "certifications"}
      [] kind = "TherapistAvailability" -> {"time_ranges"}
      [] kind = "BookingRequest" -> {"preferred_times"}
      [] OTHER -> {}

\* The input is valid but, at most, for field f.
OtherwiseValid(f) == \A e \in val.result.errors : e.field = f

DefaultsTo(f, x) ==
    (f \notin DOMAIN val.raw /\ OtherwiseValid(f)) => (val.result.ok /\ val.result.rec[f] = x)

=============================================================================
